---- MODULE Spec2Model ----
(***************************************************************************)
(* A model of tallier.py: the Master (flush scheduler, merge, report), the *)
(* worker processes (Controller main thread and Listener receive thread)   *)
(* and the FrequencyCounter.                                               *)
(*                                                                         *)
(* Three specifications share the module:                                  *)
(*   SpecWorker  one worker process, its two threads interleaved at the    *)
(*               granularity of the attribute loads and stores of the      *)
(*               Python code (the GIL switches threads between bytecodes); *)
(*   SpecFC      a FrequencyCounter driven by arbitrary batches;           *)
(*   Spec        the Master with its workers, one datagram and one flush   *)
(*               at a time, with the clock.                                *)
(*                                                                         *)
(* Numbers: sample values are small integers and sample rates are 1.0 and  *)
(* 0.5 (written in halves: 2 and 1), so value / sample_rate is exact in    *)
(* IEEE doubles and in the integers used here.                             *)
(***************************************************************************)
EXTENDS Integers, Sequences, FiniteSets, TLC

(***************************************************************************)
(* Bounds of the model.                                                    *)
(***************************************************************************)
MaxDgrams == 1      \* datagrams a worker receives (SpecWorker)
MaxCmds == 3        \* commands the Master sends to the worker (SpecWorker)
FCSize == 1         \* FrequencyCounter.size (SpecFC; the program's default is 1000)
MaxSent == 2        \* datagrams the workers receive in all (Spec)
MaxTime == 5        \* the clock's horizon, in ticks (Spec)
FlushInterval == 2  \* Master.flush_interval, in ticks (Spec; a configuration value)
MaxRounds == 2      \* flushes the Master begins (SpecCommands)
MaxLines == 2       \* lines of a datagram (SpecParse)
MaxListLen == 12    \* lengths of timer lists the percentile index is computed for

(***************************************************************************)
(* Program constants.                                                      *)
(***************************************************************************)
FLUSH == "flush"
SHUTDOWN == "shutdown"
BADCMD == "reload"          \* any command other than FLUSH and SHUTDOWN
COUNTER == "counter"
TIMER == "timer"
KeyCountPrefix == "tallier._key_counts."
MessagesChildPrefix == "tallier.messages.child_"
BytesChildPrefix == "tallier.bytes.child_"
RateOne == 2                \* sample_rate 1.0, in halves
RateHalf == 1               \* sample_rate 0.5, in halves

\* float('nan'), which float() returns for the text "nan": a code no number
\* of the model takes.
NaNValue == -1000000

\* a < b on floats: every comparison with nan is false.
Lt(a, b) == a # NaNValue /\ b # NaNValue /\ a < b

\* a + b on floats: nan if either is.
Plus(a, b) == IF a = NaNValue \/ b = NaNValue THEN NaNValue ELSE a + b

(***************************************************************************)
(* Dictionaries: functions whose domain is the set of keys present.        *)
(***************************************************************************)
EmptyDict == [k \in {} |-> 0]

\* d[k] of a defaultdict(float): 0 when k is absent.
Get(d, k) == IF k \in DOMAIN d THEN d[k] ELSE 0

\* d[k] = v
Put(d, k, v) == [x \in (DOMAIN d) \cup {k} |-> IF x = k THEN v ELSE d[x]]

\* '%s' of a worker id.
IdStr(i) == CASE i = 0 -> "0" [] i = 1 -> "1" [] i = 2 -> "2" [] OTHER -> "n"

\* s.startswith(p)
StartsWith(s, p) == Len(s) >= Len(p) /\ SubSeq(s, 1, Len(p)) = p

\* s[len(p):]
StripPrefix(s, p) == SubSeq(s, Len(p) + 1, Len(s))

(***************************************************************************)
(* Samples and bundles.                                                    *)
(***************************************************************************)
Sample(k, v, t, r) == [key |-> k, value |-> v, value_type |-> t, sample_rate |-> r]

\* value / sample.sample_rate, the rate in halves.
Scaled(sample) ==
  IF sample.value = NaNValue THEN NaNValue
  ELSE (2 * sample.value) \div sample.sample_rate

\* (collections.defaultdict(float), {}); held records, for the observer, the
\* samples whose counter or timer update was stored into this object.
EmptyBundle == [counters |-> EmptyDict, timers |-> EmptyDict, held |-> {}]

\* self.current_samples[0][key] += value / sample.sample_rate, or
\* self.current_samples[1].setdefault(key, []).append(value), on bundle b.
StoreValue(b, sample, sid) ==
  IF sample.value_type = COUNTER
  THEN [b EXCEPT !.counters = Put(b.counters, sample.key,
                                  Plus(Get(b.counters, sample.key), Scaled(sample))),
                 !.held = b.held \cup {sid}]
  ELSE [b EXCEPT !.timers = Put(b.timers, sample.key,
                                Append(IF sample.key \in DOMAIN b.timers
                                       THEN b.timers[sample.key] ELSE <<>>,
                                       sample.value)),
                 !.held = b.held \cup {sid}]

\* self.current_samples[0]['tallier._key_counts.%s' % key] += 1, on bundle b.
StoreKeyCount(b, sample) ==
  [b EXCEPT !.counters = Put(b.counters, KeyCountPrefix \o sample.key,
                             Get(b.counters, KeyCountPrefix \o sample.key) + 1)]

(***************************************************************************)
(* State.                                                                  *)
(***************************************************************************)
VARIABLES
  \* ---- one worker process (SpecWorker) ----
  heap,                \* the bundle objects the process has allocated, by reference
  current_samples,     \* Listener.current_samples: reference of the live bundle
  message_count,       \* Listener.message_count
  last_message_count,  \* Listener.last_message_count
  byte_count,          \* Listener.byte_count
  last_byte_count,     \* Listener.last_byte_count
  listener_set,        \* Controller.listener is not None
  rpc,                 \* where the receive thread is
  datagram,            \* the datagram the receive thread is handling
  sidx,                \* index of the sample being handled
  bref,                \* the bundle reference the receive thread has loaded
  cpc,                 \* where the Controller's main thread is
  samples,             \* local `samples` of Listener.flush(): the swapped-out reference
  conn_cmds,           \* commands in the pipe, Master to Controller
  conn_replies,        \* what the Controller has sent to the Master
  handled,             \* commands the Controller has taken from the pipe
  interrupted,         \* a KeyboardInterrupt was raised in the Controller
  \* ---- the FrequencyCounter (SpecFC, and the Master's stat_key_counter) ----
  frequencies,         \* FrequencyCounter.frequencies
  total_observed,      \* FrequencyCounter.total_observed
  \* ---- the Master and its workers (Spec) ----
  optimized,           \* the interpreter runs with -O: assert statements are stripped
  command_port,        \* Master.command_port (0: None)
  command_service,     \* Master.command_service: "unset" (no such attribute), "open", "None"
  sock,                \* Master.sock: "None" or "bound"
  mpc,                 \* Master.start(): "new", "running", "returned", "raised"
  now,                 \* time.time(), in ticks of half a second
  next_flush_time,     \* Master.next_flush_time (NoTime: None)
  last_flush_time,     \* Master.last_flush_time (NoTime: None)
  num_stats,           \* Master.num_stats (-1: None)
  controllers,         \* per worker: "none", "running", "exited"
  listeners,           \* per worker: its Listener's fields
  sent,                \* how often each worker received each datagram since the last flush
  start_time,          \* the time start() took as last_flush_time
  flushes,             \* _flush() calls that returned
  sink,                \* outcome of the last _send_to_graphite
  last_flush           \* what the last _flush() merged and reported

wvars == <<heap, current_samples, message_count, last_message_count, byte_count,
           last_byte_count, listener_set, rpc, datagram, sidx, bref, cpc, samples,
           conn_cmds, conn_replies, handled, interrupted>>

fvars == <<frequencies, total_observed>>

mvars == <<optimized, command_port, command_service, sock, mpc, now, next_flush_time,
           last_flush_time, num_stats, controllers, listeners, sent, start_time,
           flushes, sink, last_flush>>

\* ---- the Master's commands over the pipes (SpecCommands) ----
VARIABLES
  pipes,               \* per worker: commands and replies in flight, and how many
                       \* commands were sent and were received on the pipe
  procs,               \* per worker: the state of the child process
  cpos,                \* where the Master is in start() / _command_all() / _shutdown()
  cmd,                 \* the argument of the running _command_all(cmd)
  ci,                  \* the pipe _command_all() sends to or reads from next
  cresults,            \* the replies _command_all() has read so far
  rounds               \* flushes begun

cvars == <<pipes, procs, cpos, cmd, ci, cresults, rounds>>

\* ---- Sample.parse (SpecParse) ----
VARIABLES
  pdatagram,           \* the lines of the datagram being parsed
  ppos,                \* how many of them the loop has taken
  previous,            \* Sample.parse: previous
  psamples,            \* Sample.parse: samples
  plog                 \* per line taken: previous before and after, the effective
                       \* line (<<>> for a line dropped), and what each part gave

pvars == <<pdatagram, ppos, previous, psamples, plog>>

vars == <<wvars, fvars, mvars, cvars, pvars>>

\* What the steps of one specification leave alone: the state of the others.
notWorker == <<fvars, mvars, cvars, pvars>>

notFC == <<wvars, mvars, cvars, pvars>>

notMaster == <<wvars, cvars, pvars>>

notCommands == <<wvars, fvars, mvars, pvars>>

notParse == <<wvars, fvars, mvars, cvars>>

(***************************************************************************)
(* SpecWorker: one worker process.                                         *)
(***************************************************************************)
WorkerId == 0

\* Datagrams a client may send, with len(datagram) and what Sample.parse
\* returns for them: "x:1|c@0.5" and "x:2|ms".
WDatagrams ==
  { [len |-> 9, samples |-> <<Sample("x", 1, COUNTER, RateHalf)>>],
    [len |-> 6, samples |-> <<Sample("x", 2, TIMER, RateOne)>>] }

NoDatagram == [len |-> 0, samples |-> <<>>]

BundleReply(b) == [kind |-> "bundle", bundle |-> b, count |-> 0]
CountReply(n) == [kind |-> "count", bundle |-> EmptyBundle, count |-> n]

\* Controller.__init__, Controller.start up to the command loop, and
\* Listener.start: an empty live bundle, zeroed counts, both threads running.
InitWorker ==
  /\ heap = <<EmptyBundle>>
  /\ current_samples = 1
  /\ message_count = 0
  /\ last_message_count = 0
  /\ byte_count = 0
  /\ last_byte_count = 0
  /\ listener_set = TRUE
  /\ rpc = "recvfrom"
  /\ datagram = NoDatagram
  /\ sidx = 0
  /\ bref = 0
  /\ cpc = "recv"
  /\ samples = 0
  /\ conn_cmds = <<>>
  /\ conn_replies = <<>>
  /\ handled = <<>>
  /\ interrupted = FALSE

\* The process lives until Controller.start() returns; the Listener is a
\* daemon thread of it.
ProcessAlive == cpc # "stopped"

\* The id of the sample being handled: (datagram number, index).
SampleId == <<message_count, sidx>>

\* Listener.run: datagram, addr = self.sock.recvfrom(1024), then
\* Sample.parse(datagram) at the head of _handle_datagram.
Recvfrom ==
  /\ ProcessAlive
  /\ rpc = "recvfrom"
  /\ message_count < MaxDgrams
  /\ \E d \in WDatagrams :
       /\ datagram' = d
       /\ sidx' = 1
       /\ rpc' = IF Len(d.samples) = 0 THEN "count_message" ELSE "load"
  /\ UNCHANGED <<heap, current_samples, message_count, last_message_count,
                 byte_count, last_byte_count, listener_set, bref, cpc, samples,
                 conn_cmds, conn_replies, handled, interrupted>>
  /\ UNCHANGED notWorker

\* Listener.run: self.sock.recvfrom(1024) raises socket.error. run() has no
\* handler, so the exception ends run() and with it the Listener thread; the
\* Controller, in the main thread, goes on.
RecvfromRaises ==
  /\ ProcessAlive
  /\ rpc = "recvfrom"
  /\ rpc' = "dead"
  /\ UNCHANGED <<heap, current_samples, message_count, last_message_count,
                 byte_count, last_byte_count, listener_set, datagram, sidx, bref, cpc,
                 samples, conn_cmds, conn_replies, handled, interrupted>>
  /\ UNCHANGED notWorker

\* _handle_sample: the load of self.current_samples[0] (or [1]) that starts
\* the update of the sample's counter or timer.
LoadBundle ==
  /\ ProcessAlive
  /\ rpc = "load"
  /\ bref' = current_samples
  /\ rpc' = "store"
  /\ UNCHANGED <<heap, current_samples, message_count, last_message_count,
                 byte_count, last_byte_count, listener_set, datagram, sidx, cpc,
                 samples, conn_cmds, conn_replies, handled, interrupted>>
  /\ UNCHANGED notWorker

\* _handle_sample: the store that ends the update, into the object loaded.
StoreSample ==
  /\ ProcessAlive
  /\ rpc = "store"
  /\ heap' = [heap EXCEPT ![bref] = StoreValue(heap[bref], datagram.samples[sidx],
                                               SampleId)]
  /\ rpc' = "load_key_count"
  /\ bref' = 0                                \* the loaded reference is dropped
  /\ UNCHANGED <<current_samples, message_count, last_message_count, byte_count,
                 last_byte_count, listener_set, datagram, sidx, cpc, samples,
                 conn_cmds, conn_replies, handled, interrupted>>
  /\ UNCHANGED notWorker

\* _handle_sample, last line: the load of self.current_samples[0].
LoadKeyCount ==
  /\ ProcessAlive
  /\ rpc = "load_key_count"
  /\ bref' = current_samples
  /\ rpc' = "store_key_count"
  /\ UNCHANGED <<heap, current_samples, message_count, last_message_count,
                 byte_count, last_byte_count, listener_set, datagram, sidx, cpc,
                 samples, conn_cmds, conn_replies, handled, interrupted>>
  /\ UNCHANGED notWorker

\* _handle_sample, last line: the store of the key count; then the next
\* sample of the datagram, or the counts of _handle_datagram.
StoreKeyCountStep ==
  /\ ProcessAlive
  /\ rpc = "store_key_count"
  /\ heap' = [heap EXCEPT ![bref] = StoreKeyCount(heap[bref], datagram.samples[sidx])]
  /\ IF sidx < Len(datagram.samples)
     THEN sidx' = sidx + 1 /\ rpc' = "load"
     ELSE sidx' = sidx /\ rpc' = "count_message"
  /\ bref' = 0                                \* the loaded reference is dropped
  /\ UNCHANGED <<current_samples, message_count, last_message_count, byte_count,
                 last_byte_count, listener_set, datagram, cpc, samples,
                 conn_cmds, conn_replies, handled, interrupted>>
  /\ UNCHANGED notWorker

\* _handle_datagram: self.message_count += 1
CountMessage ==
  /\ ProcessAlive
  /\ rpc = "count_message"
  /\ message_count' = message_count + 1
  /\ rpc' = "count_bytes"
  /\ UNCHANGED <<heap, current_samples, last_message_count, byte_count,
                 last_byte_count, listener_set, datagram, sidx, bref, cpc, samples,
                 conn_cmds, conn_replies, handled, interrupted>>
  /\ UNCHANGED notWorker

\* _handle_datagram: self.byte_count += len(datagram)
CountBytes ==
  /\ ProcessAlive
  /\ rpc = "count_bytes"
  /\ byte_count' = byte_count + datagram.len
  /\ rpc' = "recvfrom"
  /\ datagram' = NoDatagram /\ sidx' = 0      \* the locals are dead
  /\ UNCHANGED <<heap, current_samples, message_count, last_message_count,
                 last_byte_count, listener_set, bref, cpc, samples,
                 conn_cmds, conn_replies, handled, interrupted>>
  /\ UNCHANGED notWorker

\* The receive thread's own variables.
rvars == <<rpc, datagram, sidx, bref>>

\* The Master writes a command to the pipe: pipe[0].send(cmd).
MasterSend ==
  /\ Len(handled) + Len(conn_cmds) < MaxCmds
  /\ \E c \in {FLUSH, SHUTDOWN, BADCMD} : conn_cmds' = Append(conn_cmds, c)
  /\ UNCHANGED <<heap, current_samples, message_count, last_message_count,
                 byte_count, last_byte_count, listener_set, rvars, cpc, samples,
                 conn_replies, handled, interrupted>>
  /\ UNCHANGED notWorker

\* Controller.start: cmd = self.conn.recv() and the dispatch on cmd. A command
\* that is neither FLUSH nor SHUTDOWN is logged and the loop goes on.
ControllerRecv ==
  /\ cpc = "recv"
  /\ conn_cmds # <<>>
  /\ conn_cmds' = Tail(conn_cmds)
  /\ handled' = Append(handled, Head(conn_cmds))
  /\ cpc' = CASE Head(conn_cmds) = FLUSH -> "flush_swap"
              [] Head(conn_cmds) = SHUTDOWN -> "shutdown"
              [] OTHER -> "recv"
  /\ UNCHANGED <<heap, current_samples, message_count, last_message_count,
                 byte_count, last_byte_count, listener_set, rvars, samples,
                 conn_replies, interrupted>>
  /\ UNCHANGED notWorker

\* Listener.flush: samples, self.current_samples =
\*     (self.current_samples, (collections.defaultdict(float), {}))
FlushSwap ==
  /\ cpc = "flush_swap"
  /\ samples' = current_samples
  /\ heap' = Append(heap, EmptyBundle)
  /\ current_samples' = Len(heap) + 1
  /\ cpc' = "flush_messages"
  /\ UNCHANGED <<message_count, last_message_count, byte_count, last_byte_count,
                 listener_set, rvars, conn_cmds, conn_replies, handled, interrupted>>
  /\ UNCHANGED notWorker

FlushMessages_KeepsSnapshot ==
  /\ cpc = "flush_messages"
  /\ heap' = [heap EXCEPT ![samples].counters =
                Put(@, MessagesChildPrefix \o IdStr(WorkerId),
                    message_count - last_message_count)]
  /\ last_message_count' = last_message_count
  /\ cpc' = "flush_bytes"
  /\ UNCHANGED <<current_samples, message_count, byte_count, last_byte_count,
                 listener_set, rvars, samples, conn_cmds, conn_replies, handled,
                 interrupted>>
  /\ UNCHANGED notWorker

\* Listener.flush: mc = self.message_count;
\*   samples[0]['tallier.messages.child_%s' % self.listener_id] =
\*       mc - self.last_message_count;  self.last_message_count = mc
\* (mc is read once, so the three statements act as one step.)
FlushMessages ==
  /\ cpc = "flush_messages"
  /\ heap' = [heap EXCEPT ![samples].counters =
                Put(@, MessagesChildPrefix \o IdStr(WorkerId),
                    message_count - last_message_count)]
  /\ last_message_count' = message_count
  /\ cpc' = "flush_bytes"
  /\ UNCHANGED <<current_samples, message_count, byte_count, last_byte_count,
                 listener_set, rvars, samples, conn_cmds, conn_replies, handled,
                 interrupted>>
  /\ UNCHANGED notWorker

\* Listener.flush: bc = self.byte_count;
\*   samples[0]['tallier.bytes.child_%s' % self.listener_id] =
\*       bc - self.last_byte_count;  self.last_byte_count = bc;  return samples
FlushBytes ==
  /\ cpc = "flush_bytes"
  /\ heap' = [heap EXCEPT ![samples].counters =
                Put(@, BytesChildPrefix \o IdStr(WorkerId),
                    byte_count - last_byte_count)]
  /\ last_byte_count' = byte_count
  /\ cpc' = "send"
  /\ UNCHANGED <<current_samples, message_count, last_message_count, byte_count,
                 listener_set, rvars, samples, conn_cmds, conn_replies, handled,
                 interrupted>>
  /\ UNCHANGED notWorker

\* Controller._flush: self.conn.send(...) pickles the returned bundle as it is
\* at that moment and writes it to the pipe.
ControllerSend ==
  /\ cpc = "send"
  /\ conn_replies' = Append(conn_replies, BundleReply(heap[samples]))
  /\ cpc' = "recv"
  /\ samples' = 0                             \* flush()'s local is gone
  /\ UNCHANGED <<heap, current_samples, message_count, last_message_count,
                 byte_count, last_byte_count, listener_set, rvars,
                 conn_cmds, handled, interrupted>>
  /\ UNCHANGED notWorker

ControllerShutdown_StaysUp ==
  /\ cpc = "shutdown"
  /\ conn_replies' = Append(conn_replies, CountReply(message_count))
  /\ listener_set' = FALSE
  /\ cpc' = "recv"
  /\ UNCHANGED <<heap, current_samples, message_count, last_message_count,
                 byte_count, last_byte_count, rvars, samples, conn_cmds, handled,
                 interrupted>>
  /\ UNCHANGED notWorker

\* Controller._shutdown, then the break out of the command loop:
\*   self.conn.send(self.listener.message_count); self.listener = None
ControllerShutdown ==
  /\ cpc = "shutdown"
  /\ conn_replies' = Append(conn_replies, CountReply(message_count))
  /\ listener_set' = FALSE
  /\ cpc' = "stopped"
  /\ UNCHANGED <<heap, current_samples, message_count, last_message_count,
                 byte_count, last_byte_count, rvars, samples, conn_cmds, handled,
                 interrupted>>
  /\ UNCHANGED notWorker

\* Controller.start: except KeyboardInterrupt: self._shutdown(). The signal
\* may arrive wherever the main thread is inside the try block.
ControllerInterrupt ==
  /\ cpc \in {"recv", "flush_swap", "flush_messages", "flush_bytes", "send", "shutdown"}
  /\ interrupted' = TRUE
  /\ conn_replies' = Append(conn_replies, CountReply(message_count))
  /\ listener_set' = FALSE
  /\ cpc' = "stopped"
  /\ UNCHANGED <<heap, current_samples, message_count, last_message_count,
                 byte_count, last_byte_count, rvars, samples, conn_cmds, handled>>
  /\ UNCHANGED notWorker

NextWorker ==
  \/ Recvfrom
  \/ RecvfromRaises
  \/ LoadBundle
  \/ StoreSample
  \/ LoadKeyCount
  \/ StoreKeyCountStep
  \/ CountMessage
  \/ CountBytes
  \/ MasterSend
  \/ ControllerRecv
  \/ FlushSwap
  \/ FlushMessages
  \/ FlushBytes
  \/ ControllerSend
  \/ ControllerShutdown
  \/ ControllerInterrupt


(***************************************************************************)
(* Properties of the worker process.                                       *)
(***************************************************************************)
MessagesKey == MessagesChildPrefix \o IdStr(WorkerId)
BytesKey == BytesChildPrefix \o IdStr(WorkerId)

\* The samples whose counter or timer store has been executed.
StoredSamples == UNION {heap[b].held : b \in DOMAIN heap}

\* The bundle objects not pickled yet: the live one and the one flush() holds.
UnsentRefs == {current_samples} \cup (IF samples = 0 THEN {} ELSE {samples})

\* The bundles delivered to the Master that contain sample sid.
DeliveredWith(sid) ==
  {i \in DOMAIN conn_replies :
     conn_replies[i].kind = "bundle" /\ sid \in conn_replies[i].bundle.held}

\* C1: under every interleaving of the receive thread with flush(), every
\* sample the listener accumulated is in exactly one bundle delivered to the
\* Master (or still in a bundle that has not been sent yet): none twice, none
\* lost.
C1_EverySampleInExactlyOneBundle ==
  \A sid \in StoredSamples :
    Cardinality(DeliveredWith(sid))
      + Cardinality({b \in UnsentRefs : sid \in heap[b].held}) = 1

\* The commands whose handling is over.
CompletedCmds ==
  IF cpc \in {"flush_swap", "flush_messages", "flush_bytes", "send", "shutdown"}
  THEN SubSeq(handled, 1, Len(handled) - 1)
  ELSE handled

IsAccepted(c) == c \in {FLUSH, SHUTDOWN}

\* The replies are, in order, one per completed FLUSH (a bundle) and one per
\* completed SHUTDOWN (a count); SHUTDOWN is the last command handled.
RepliesMatchCommands ==
  LET accepted == SelectSeq(CompletedCmds, IsAccepted) IN
    /\ Len(conn_replies) = Len(accepted)
    /\ \A i \in DOMAIN conn_replies :
         conn_replies[i].kind = (IF accepted[i] = FLUSH THEN "bundle" ELSE "count")
    /\ \A i \in 1 .. (Len(handled) - 1) : handled[i] # SHUTDOWN
    /\ (cpc = "stopped") =
         (CompletedCmds # <<>> /\ CompletedCmds[Len(CompletedCmds)] = SHUTDOWN)

\* A command is taken only by the idle Controller, from the head of the pipe.
TakesHeadWhenIdle ==
  handled' # handled =>
    /\ cpc = "recv"
    /\ conn_cmds # <<>>
    /\ handled' = Append(handled, Head(conn_cmds))
    /\ conn_cmds' = Tail(conn_cmds)

\* The replies carry the flushed bundle and the current message count.
ReplyContents ==
  /\ (cpc = "send" /\ cpc' = "recv") =>
       conn_replies' = Append(conn_replies, BundleReply(heap[samples]))
  /\ (cpc = "shutdown" /\ cpc' # "shutdown") =>
       /\ conn_replies' = Append(conn_replies, CountReply(message_count))
       /\ cpc' = "stopped"

\* Any other command: no reply, no change of the listener's state.
OtherCommandIgnored ==
  (handled' # handled /\ ~IsAccepted(Head(conn_cmds))) =>
    /\ cpc' = "recv"
    /\ UNCHANGED <<heap, current_samples, message_count, last_message_count,
                   byte_count, last_byte_count, listener_set, conn_replies>>

\* C7: the Controller handles the commands one at a time in arrival order,
\* sends exactly one reply per FLUSH (the flushed bundle) and one for SHUTDOWN
\* (the message count) and then handles no further command; any other command
\* gets no reply and changes no listener state. (Stated of the command loop:
\* of a Controller that no KeyboardInterrupt has taken out of it.)
C7_CommandsHandledInOrder ==
  /\ [](~interrupted => RepliesMatchCommands)
  /\ [][(~interrupted' => TakesHeadWhenIdle /\ ReplyContents /\ OtherCommandIgnored)]_vars

\* C7's case: an ignored command, a FLUSH and a SHUTDOWN all handled.
C7_Witness ==
  /\ ~interrupted
  /\ cpc = "stopped"
  /\ handled = <<BADCMD, FLUSH, SHUTDOWN>>
  /\ Len(conn_replies) = 2
  /\ conn_replies[1].kind = "bundle"
  /\ conn_replies[2] = CountReply(1)

RECURSIVE SumCounter(_, _, _)
\* The sum of counters[k] over the first n bundle objects of h.
SumCounter(h, k, n) ==
  IF n = 0 THEN 0 ELSE Get(h[n].counters, k) + SumCounter(h, k, n - 1)

\* The per-flush deltas are non-negative and add up to the snapshots, which
\* are totals the listener had; the delivered bundles carry them.
DeltasAddUp ==
  /\ \A b \in DOMAIN heap :
       Get(heap[b].counters, MessagesKey) >= 0 /\ Get(heap[b].counters, BytesKey) >= 0
  /\ SumCounter(heap, MessagesKey, Len(heap)) = last_message_count
  /\ SumCounter(heap, BytesKey, Len(heap)) = last_byte_count
  /\ last_message_count <= message_count
  /\ last_byte_count <= byte_count
  /\ \A i \in DOMAIN conn_replies :
       conn_replies[i].kind = "bundle" =>
         /\ MessagesKey \in DOMAIN conn_replies[i].bundle.counters
         /\ BytesKey \in DOMAIN conn_replies[i].bundle.counters
         /\ conn_replies[i].bundle.counters[MessagesKey] = heap[i].counters[MessagesKey]
         /\ conn_replies[i].bundle.counters[BytesKey] = heap[i].counters[BytesKey]

\* What a flush() writes: the delta since the last snapshot, then the snapshot.
FlushWritesDelta ==
  /\ (cpc = "flush_messages" /\ cpc' = "flush_bytes") =>
       /\ heap'[samples].counters[MessagesKey] = message_count - last_message_count
       /\ last_message_count' = message_count
  /\ (cpc = "flush_bytes" /\ cpc' = "send") =>
       /\ heap'[samples].counters[BytesKey] = byte_count - last_byte_count
       /\ last_byte_count' = byte_count

\* C8: every flush() puts message_count - last_message_count and
\* byte_count - last_byte_count into the returned bundle and then moves the
\* snapshots to those totals; so, also with datagrams arriving during a flush,
\* the per-flush deltas are non-negative and add up to the totals read at the
\* last flush.
C8_FlushDeltas == []DeltasAddUp /\ [][FlushWritesDelta]_vars

\* C8's case: a datagram counted while the first flush ran (its message after
\* the message delta was taken, its bytes before the byte delta was), and a
\* second flush that reports its message.
C8_Witness ==
  /\ Len(conn_replies) = 2
  /\ conn_replies[1].kind = "bundle" /\ conn_replies[2].kind = "bundle"
  /\ conn_replies[1].bundle.counters[MessagesKey] = 0
  /\ conn_replies[1].bundle.counters[BytesKey] > 0
  /\ conn_replies[2].bundle.counters[MessagesKey] = 1
  /\ conn_replies[2].bundle.counters[BytesKey] = 0

(***************************************************************************)
(* SpecFC: the FrequencyCounter.                                           *)
(***************************************************************************)
\* FrequencyCounter.__init__
InitFC ==
  /\ frequencies = EmptyDict
  /\ total_observed = 0

\* self.oversample_size = size
OversampleSize == FCSize

\* The keys of the stream: more of them than the counter may keep.
FCKeys == 1 .. (FCSize + OversampleSize + 2)

\* The stream stops after this many observations.
MaxObserved == FCSize + OversampleSize + 3

\* The counts of a key in one batch, and the lengths of a chunk.
Incrs == {1, 2}

RECURSIVE SumValues(_)
\* sum(d.itervalues())
SumValues(d) ==
  IF DOMAIN d = {} THEN 0
  ELSE LET k == CHOOSE x \in DOMAIN d : TRUE
       IN d[k] + SumValues([x \in (DOMAIN d) \ {k} |-> d[x]])

\* sample(): batch[key] += 1 for every key of the chunk.
BatchOf(chunk) ==
  [k \in {chunk[i] : i \in DOMAIN chunk} |->
     Cardinality({i \in DOMAIN chunk : chunk[i] = k})]

\* _sample_batch: self.frequencies[key] += value for every item of the batch
\* (the sums do not depend on the order of the loop).
AddBatch(freq, batch) ==
  [k \in (DOMAIN freq) \cup (DOMAIN batch) |-> Get(freq, k) + Get(batch, k)]

Cleanup_OneShort(freq, num) ==
  { [k \in (DOMAIN freq) \ gone |-> freq[k]] :
      gone \in { g \in SUBSET (DOMAIN freq) :
                   /\ Cardinality(g) = num - 1
                   /\ \A r \in g : \A k \in (DOMAIN freq) \ g : freq[r] <= freq[k] } }

\* cleanup(num): delete the first num items in ascending order of count. The
\* order among equal counts is the dict's, so every choice of num lowest
\* entries is a possible result.
Cleanup(freq, num) ==
  { [k \in (DOMAIN freq) \ gone |-> freq[k]] :
      gone \in { g \in SUBSET (DOMAIN freq) :
                   /\ Cardinality(g) = num
                   /\ \A r \in g : \A k \in (DOMAIN freq) \ g : freq[r] <= freq[k] } }

\* _sample_batch(batch): the possible values of frequencies afterwards.
SampleBatchResults(freq, batch) ==
  LET added == AddBatch(freq, batch)
      n == Cardinality(DOMAIN added)
  IN IF n > FCSize + OversampleSize
     THEN Cleanup(added, n - FCSize - OversampleSize)
     ELSE {added}

\* FrequencyCounter.sample(chunk)
FCSample ==
  \E chunk \in UNION {[1 .. n -> FCKeys] : n \in Incrs} :
    /\ total_observed + Len(chunk) <= MaxObserved
    /\ total_observed' = total_observed + Len(chunk)
    /\ frequencies' \in SampleBatchResults(frequencies, BatchOf(chunk))
    /\ UNCHANGED notFC

\* FrequencyCounter._sample_batch(batch), called with a batch of its own.
FCSampleBatch ==
  \E ks \in (SUBSET FCKeys) \ {{}} :
    \E batch \in [ks -> Incrs] :
      /\ total_observed + SumValues(batch) <= MaxObserved
      /\ total_observed' = total_observed + SumValues(batch)
      /\ frequencies' \in SampleBatchResults(frequencies, batch)
      /\ UNCHANGED notFC

NextFC ==
  \/ FCSample
  \/ FCSampleBatch


\* C2: after any sequence of sample() and _sample_batch() calls, with any
\* number of distinct keys, frequencies has at most size + oversample_size
\* entries.
C2_FrequenciesBounded ==
  Cardinality(DOMAIN frequencies) <= FCSize + OversampleSize

\* C2's case: more distinct keys were observed than may be kept, and entries
\* were evicted.
C2_Witness ==
  /\ Cardinality(DOMAIN frequencies) = FCSize + OversampleSize
  /\ SumValues(frequencies) < total_observed

(***************************************************************************)
(* Spec: the Master and its workers. A worker handles a datagram, and the  *)
(* Master runs a flush, in one step each.                                  *)
(***************************************************************************)
Workers == 0 .. 1

NoTime == -1

\* Datagrams the clients may send, with len(datagram) and what Sample.parse
\* returns for them:
\*   1 "x:1|c@0.5"   2 "x:nan|ms:1|ms"   3 "x:1|ms"   4 "x:3|ms"
\*   5 "tallier._key_counts.x:5|c"   6 "tallier.messages.child_1:5|c"
Datagrams ==
  << [len |-> 9, samples |-> <<Sample("x", 1, COUNTER, RateHalf)>>],
     [len |-> 13, samples |-> <<Sample("x", NaNValue, TIMER, RateOne),
                                Sample("x", 1, TIMER, RateOne)>>],
     [len |-> 6, samples |-> <<Sample("x", 1, TIMER, RateOne)>>],
     [len |-> 6, samples |-> <<Sample("x", 3, TIMER, RateOne)>>],
     [len |-> 25, samples |-> <<Sample("tallier._key_counts.x", 5, COUNTER, RateOne)>>],
     [len |-> 28, samples |-> <<Sample("tallier.messages.child_1", 5, COUNTER, RateOne)>>] >>

NoneSent == [w \in Workers |-> [d \in DOMAIN Datagrams |-> 0]]

\* Listener.start: the fields of a started Listener.
StartedListener ==
  [bundle |-> EmptyBundle, message_count |-> 0, last_message_count |-> 0,
   byte_count |-> 0, last_byte_count |-> 0]

RECURSIVE HandleSamples(_, _, _)
\* _handle_datagram: for sample in samples: self._handle_sample(sample)
HandleSamples(b, ss, i) ==
  IF i > Len(ss) THEN b
  ELSE HandleSamples(StoreKeyCount(StoreValue(b, ss[i], 0), ss[i]), ss, i + 1)

\* Listener._handle_datagram(datagram)
HandleDatagram(l, d) ==
  [l EXCEPT !.bundle = HandleSamples(l.bundle, d.samples, 1),
            !.message_count = l.message_count + 1,
            !.byte_count = l.byte_count + d.len]

ListenerFlush_NoSwap(l, id) ==
  [reply |-> [l.bundle EXCEPT !.counters =
                Put(Put(@, MessagesChildPrefix \o IdStr(id),
                        l.message_count - l.last_message_count),
                    BytesChildPrefix \o IdStr(id), l.byte_count - l.last_byte_count)],
   listener |-> [l EXCEPT !.last_message_count = l.message_count,
                          !.last_byte_count = l.byte_count]]

\* Listener.flush(): the bundle returned and the Listener afterwards.
ListenerFlush(l, id) ==
  [reply |-> [l.bundle EXCEPT !.counters =
                Put(Put(@, MessagesChildPrefix \o IdStr(id),
                        l.message_count - l.last_message_count),
                    BytesChildPrefix \o IdStr(id), l.byte_count - l.last_byte_count)],
   listener |-> [l EXCEPT !.bundle = EmptyBundle,
                          !.last_message_count = l.message_count,
                          !.last_byte_count = l.byte_count]]

\* Master._flush: the accumulators before the loop over the results.
EmptyAgg ==
  [agg_counters |-> EmptyDict, agg_timers |-> EmptyDict, total_message_count |-> 0,
   total_byte_count |-> 0, stat_key_counts |-> EmptyDict]

\* The entries of d whose key starts with prefix p.
WithPrefix(d, p) == [k \in {x \in DOMAIN d : StartsWith(x, p)} |-> d[k]]

\* Master._flush: the body of `for counters, timers in results`, for one
\* bundle. A key count is assigned (=), every counter is added (+=), the
\* per-child counts are added to the totals, the timer lists are extended.
MergeBundle(acc, b) ==
  LET c == b.counters
      t == b.timers
      kc == WithPrefix(c, KeyCountPrefix)
  IN [agg_counters |->
        [k \in (DOMAIN acc.agg_counters) \cup (DOMAIN c) |->
           Plus(Get(acc.agg_counters, k), Get(c, k))],
      agg_timers |->
        [k \in (DOMAIN acc.agg_timers) \cup (DOMAIN t) |->
           (IF k \in DOMAIN acc.agg_timers THEN acc.agg_timers[k] ELSE <<>>)
             \o (IF k \in DOMAIN t THEN t[k] ELSE <<>>)],
      total_message_count |->
        acc.total_message_count + SumValues(WithPrefix(c, MessagesChildPrefix)),
      total_byte_count |->
        acc.total_byte_count + SumValues(WithPrefix(c, BytesChildPrefix)),
      stat_key_counts |->
        [k \in (DOMAIN acc.stat_key_counts)
                 \cup {StripPrefix(x, KeyCountPrefix) : x \in DOMAIN kc} |->
           IF (KeyCountPrefix \o k) \in DOMAIN kc
           THEN kc[KeyCountPrefix \o k]
           ELSE acc.stat_key_counts[k]]]

RECURSIVE MergeFrom(_, _, _)
\* Master._flush: the loop over the results, in the order of the pipes.
MergeFrom(acc, results, i) ==
  IF i > Len(results) THEN acc
  ELSE MergeFrom(MergeBundle(acc, results[i]), results, i + 1)

\* Master._flush: the merge of the workers' bundles, then
\*   agg_counters['tallier.messages.total'] = total_message_count
\*   agg_counters['tallier.bytes.total'] = total_byte_count
Merge(results) ==
  LET acc == MergeFrom(EmptyAgg, results, 1)
  IN [acc EXCEPT !.agg_counters =
        Put(Put(@, "tallier.messages.total", acc.total_message_count),
            "tallier.bytes.total", acc.total_byte_count)]

(***************************************************************************)
(* The report. A line 'name %f %d' is a record: the value in millionths    *)
(* (what %f prints), the timestamp in whole seconds (what %d prints).      *)
(***************************************************************************)
\* '%f' % (num / den), for num >= 0 and den > 0: six decimals, rounded; 'nan'
\* for nan.
FormatF(num, den) ==
  IF num = NaNValue THEN NaNValue ELSE (2 * num * 1000000 + den) \div (2 * den)

\* '%d' % now: the whole seconds of a time in ticks of half a second.
FormatD(t) == t \div 2

Line(name, value, t) == [name |-> name, value |-> value, ts |-> FormatD(t)]

(***************************************************************************)
(* values.sort() is list.sort of the interpreter: for a list shorter than  *)
(* 64 it takes the run the list begins with (reversed if it descends) and  *)
(* inserts every later element by binary search, comparing with < only.    *)
(* On numbers this is an ascending stable sort; a nan, for which every <   *)
(* is false, stays where the comparisons leave it.                         *)
(***************************************************************************)
RECURSIVE RunEnd(_, _, _)
\* count_run: the last position of the run of s that reaches position i,
\* descending (each element < the one before) or not.
RunEnd(s, i, descending) ==
  IF i = Len(s) THEN i
  ELSE IF Lt(s[i + 1], s[i]) = descending THEN RunEnd(s, i + 1, descending)
  ELSE i

RECURSIVE Reverse(_)
\* reverse_slice
Reverse(s) == IF s = <<>> THEN <<>> ELSE Append(Reverse(Tail(s)), Head(s))

RECURSIVE BinarySearch(_, _, _, _)
\* binarysort's search: where pivot goes among the first r elements of s,
\* l and r counted from 0.
BinarySearch(s, pivot, l, r) ==
  IF l >= r THEN l
  ELSE LET p == l + ((r - l) \div 2)
       IN IF Lt(pivot, s[p + 1]) THEN BinarySearch(s, pivot, l, p)
          ELSE BinarySearch(s, pivot, p + 1, r)

RECURSIVE BinarySort(_, _)
\* binarysort: the first start elements of s are in place, the others are
\* inserted one by one.
BinarySort(s, start) ==
  IF start >= Len(s) THEN s
  ELSE LET pivot == s[start + 1]
           l == BinarySearch(s, pivot, 0, start)
       IN BinarySort(SubSeq(s, 1, l) \o <<pivot>> \o SubSeq(s, l + 1, start)
                       \o SubSeq(s, start + 2, Len(s)),
                     start + 1)

\* values.sort()
Sorted(s) ==
  IF Len(s) < 2 THEN s
  ELSE LET descending == Lt(s[2], s[1])
           n == RunEnd(s, 2, descending)
           run == IF descending THEN Reverse(SubSeq(s, 1, n)) ELSE SubSeq(s, 1, n)
       IN BinarySort(run \o SubSeq(s, n + 1, Len(s)), n)

RECURSIVE SumSeq(_)
\* sum(values)
SumSeq(s) == IF s = <<>> THEN 0 ELSE Plus(Head(s), SumSeq(Tail(s)))

\* int(len(values) * percentile / 100.0), percentile = 90; as a 1-based index.
PercentileIndex(n) == ((n * 90) \div 100) + 1

\* _build_graphite_report: the two lines of counter key, value v; dt is the
\* interval in ticks, so v / interval is 2 v / dt.
CounterLines(key, v, t, dt) ==
  { Line("stats." \o key, FormatF(2 * v, dt), t),
    Line("stats_counts." \o key, FormatF(v, 1), t) }

\* _build_graphite_report: the six lines of a timer key.
TimerLines(key, values, t, dt) ==
  LET vs == Sorted(values)
      n == Len(vs)
  IN { Line("stats.timers." \o key \o ".lower", FormatF(vs[1], 1), t),
       Line("stats.timers." \o key \o ".upper", FormatF(vs[n], 1), t),
       Line("stats.timers." \o key \o ".upper_90", FormatF(vs[PercentileIndex(n)], 1), t),
       Line("stats.timers." \o key \o ".mean", FormatF(SumSeq(vs), n), t),
       Line("stats.timers." \o key \o ".count", FormatF(n, 1), t),
       Line("stats.timers." \o key \o ".rate", FormatF(2 * n, dt), t) }

\* num_stats after: self.num_stats += len(agg_counters) + len(agg_timers)
NumStatsAfter(ns, agg) ==
  ns + Cardinality(DOMAIN agg.agg_counters) + Cardinality(DOMAIN agg.agg_timers)

\* _build_graphite_report(agg_counters, agg_timers): the lines it yields at
\* time t, dt ticks after last_flush_time, with num_stats ns before.
BuildReport(agg, t, dt, ns) ==
  UNION {CounterLines(k, agg.agg_counters[k], t, dt) : k \in DOMAIN agg.agg_counters}
    \cup UNION {TimerLines(k, agg.agg_timers[k], t, dt) : k \in DOMAIN agg.agg_timers}
    \cup { Line("stats.tallier.num_stats", FormatF(NumStatsAfter(ns, agg), 1), t),
           Line("stats.tallier.num_workers", FormatF(Cardinality(Workers), 1), t) }

(***************************************************************************)
(* The Master's actions.                                                   *)
(***************************************************************************)
NoFlush ==
  [merged |-> EmptyAgg, results |-> <<>>, sent |-> NoneSent, built |-> FALSE,
   lines |-> {}, time |-> NoTime, dt |-> 0, num_stats_before |-> 0]

\* Master.__init__ with command_port cp, under an interpreter that strips
\* assert statements (opt) or does not. command_service is not assigned.
InitMaster(cp, opt) ==
  /\ optimized = opt
  /\ command_port = cp
  /\ command_service = "unset"
  /\ sock = "None"
  /\ mpc = "new"
  /\ now = 0
  /\ next_flush_time = NoTime
  /\ last_flush_time = NoTime
  /\ num_stats = -1
  /\ controllers = [w \in Workers |-> "none"]
  /\ listeners = [w \in Workers |-> StartedListener]
  /\ sent = NoneSent
  /\ start_time = NoTime
  /\ flushes = 0
  /\ sink = "none"
  /\ last_flush = NoFlush

\* Master.start() with assert statements in force: _bind() evaluates
\* `assert self.command_service is None` on an attribute that was never
\* assigned, and start() ends with that AttributeError.
MasterStartRaises ==
  /\ mpc = "new"
  /\ ~optimized
  /\ mpc' = "raised"
  /\ UNCHANGED <<optimized, command_port, command_service, sock, now, next_flush_time,
                 last_flush_time, num_stats, controllers, listeners, sent, start_time,
                 flushes, sink, last_flush>>
  /\ UNCHANGED <<notMaster, fvars>>

\* Master.start() up to the scheduler loop: _bind(), _create_controllers(),
\* the controllers started (each starts its Listener), the flush times, num_stats
\* and the FrequencyCounter set.
MasterStart ==
  /\ mpc = "new"
  /\ optimized
  /\ sock' = "bound"
  /\ command_service' = IF command_port # 0 THEN "open" ELSE command_service
  /\ controllers' = [w \in Workers |-> "running"]
  /\ listeners' = [w \in Workers |-> StartedListener]
  /\ last_flush_time' = now
  /\ next_flush_time' = now + FlushInterval
  /\ start_time' = now
  /\ num_stats' = 0
  /\ frequencies' = EmptyDict
  /\ total_observed' = 0
  /\ mpc' = "running"
  /\ UNCHANGED <<optimized, command_port, now, sent, flushes, sink, last_flush>>
  /\ UNCHANGED notMaster

\* Listener.run of worker w receives datagram d and handles it.
Deliver ==
  /\ SumValues([w \in Workers |-> listeners[w].message_count]) < MaxSent
  /\ \E w \in Workers : \E d \in DOMAIN Datagrams :
       /\ controllers[w] = "running"
       /\ listeners' = [listeners EXCEPT ![w] = HandleDatagram(@, Datagrams[d])]
       /\ sent' = [sent EXCEPT ![w][d] = @ + 1]
  /\ UNCHANGED <<optimized, command_port, command_service, sock, mpc, now,
                 next_flush_time, last_flush_time, num_stats, controllers, start_time,
                 flushes, sink, last_flush>>
  /\ UNCHANGED <<notMaster, fvars>>

\* Master.start, the loop with sleep_time > 0: asyncore.poll(sleep_time).
\* The Master may be back late.
MasterPoll ==
  /\ mpc = "running"
  /\ next_flush_time - now > 0
  /\ \E t \in (now + 1) .. MaxTime : now' = t
  /\ UNCHANGED <<optimized, command_port, command_service, sock, mpc, next_flush_time,
                 last_flush_time, num_stats, controllers, listeners, sent, start_time,
                 flushes, sink, last_flush>>
  /\ UNCHANGED <<notMaster, fvars>>

\* Master._shutdown(), run by the finally clause of start(); lft is
\* last_flush_time when it starts and ending is how start() ends if
\* _shutdown() returns. With command_service never assigned,
\* `if self.command_service:` raises AttributeError after the socket was
\* closed, before any SHUTDOWN is sent: the workers run on with the
\* Listeners ls. Otherwise every Controller answers SHUTDOWN and its process
\* exits, and the flush times are set to None.
Shutdown(lft, ending, ls) ==
  /\ sock' = "None"
  /\ IF command_service = "unset"
     THEN /\ mpc' = "raised"
          /\ last_flush_time' = lft
          /\ listeners' = ls
          /\ UNCHANGED <<command_service, controllers, next_flush_time>>
     ELSE /\ mpc' = ending
          /\ command_service' = "None"
          /\ controllers' = [w \in Workers |-> "exited"]
          /\ listeners' = [w \in Workers |-> StartedListener]
          /\ next_flush_time' = NoTime
          /\ last_flush_time' = NoTime

\* Master.start: a KeyboardInterrupt in the loop, then the finally clause.
MasterInterrupt ==
  /\ mpc = "running"
  /\ Shutdown(last_flush_time, "returned", listeners)
  /\ UNCHANGED <<optimized, command_port, now, num_stats, sent, start_time,
                 flushes, sink, last_flush>>
  /\ UNCHANGED <<notMaster, fvars>>

\* _command_all(FLUSH): what worker w's Listener.flush() gives.
FlushOf(w) == ListenerFlush(listeners[w], w)

\* The Listeners after _command_all(FLUSH).
Flushed == [w \in Workers |-> FlushOf(w).listener]

\* results, in the order of the pipes.
Results == [i \in 1 .. Cardinality(Workers) |-> FlushOf(i - 1).reply]

\* Master._flush up to the report: the workers' flushes, the merge and
\* stat_key_counter._sample_batch(stat_key_counts).
FlushAndMerge ==
  /\ mpc = "running"
  /\ next_flush_time - now <= 0
  /\ sent' = NoneSent
  /\ frequencies' \in SampleBatchResults(frequencies, Merge(Results).stat_key_counts)
  /\ total_observed' = total_observed + SumValues(Merge(Results).stat_key_counts)
  /\ UNCHANGED <<optimized, command_port, start_time>>
  /\ UNCHANGED notMaster

\* What _flush() leaves for the observer.
FlushRecord(built, t) ==
  [merged |-> Merge(Results), results |-> Results, sent |-> sent, built |-> built,
   lines |-> IF built
             THEN BuildReport(Merge(Results), t, t - last_flush_time, num_stats)
             ELSE {},
   time |-> t, dt |-> t - last_flush_time, num_stats_before |-> num_stats]

MasterFlush_KeepsLastFlushTime ==
  /\ FlushAndMerge
  /\ \E t \in now .. MaxTime :
       /\ t - last_flush_time > 0
       /\ now' = t
       /\ last_flush_time' = last_flush_time
       /\ last_flush' = FlushRecord(TRUE, t)
  /\ num_stats' = NumStatsAfter(num_stats, Merge(Results))
  /\ sink' = "sent"
  /\ next_flush_time' = next_flush_time + FlushInterval
  /\ flushes' = flushes + 1
  /\ listeners' = Flushed
  /\ UNCHANGED <<command_service, sock, mpc, controllers>>

MasterFlush_ResetsToNow ==
  /\ FlushAndMerge
  /\ \E t \in now .. MaxTime :
       /\ t - last_flush_time > 0
       /\ now' = t
       /\ last_flush_time' = t
       /\ last_flush' = FlushRecord(TRUE, t)
  /\ num_stats' = NumStatsAfter(num_stats, Merge(Results))
  /\ sink' = "sent"
  /\ next_flush_time' = now' + FlushInterval
  /\ flushes' = flushes + 1
  /\ listeners' = Flushed
  /\ UNCHANGED <<command_service, sock, mpc, controllers>>

\* Master.start, the loop with sleep_time <= 0: self._flush() sends the report
\* (built at time t) and then self.next_flush_time += self.flush_interval.
MasterFlush ==
  /\ FlushAndMerge
  /\ \E t \in now .. MaxTime :
       /\ t - last_flush_time > 0
       /\ now' = t
       /\ last_flush_time' = t
       /\ last_flush' = FlushRecord(TRUE, t)
  /\ num_stats' = NumStatsAfter(num_stats, Merge(Results))
  /\ sink' = "sent"
  /\ next_flush_time' = next_flush_time + FlushInterval
  /\ flushes' = flushes + 1
  /\ listeners' = Flushed
  /\ UNCHANGED <<command_service, sock, mpc, controllers>>

\* _flush() when sock.connect() to the sink fails: socket.error is raised
\* before the report generator has run; nothing catches it, so it leaves the
\* loop of start(), whose finally clause runs _shutdown().
MasterFlushConnectFails ==
  /\ FlushAndMerge
  /\ \E t \in now .. MaxTime :
       /\ now' = t
       /\ last_flush' = FlushRecord(FALSE, t)
  /\ sink' = "connect_failed"
  /\ Shutdown(last_flush_time, "raised", Flushed)
  /\ UNCHANGED <<num_stats, flushes>>

\* _flush() when '\n'.join(msgs) runs the report generator with
\* now = last_flush_time: `value / interval` raises ZeroDivisionError after
\* self.last_flush_time = now; the error leaves start() the same way.
MasterFlushZeroInterval ==
  /\ FlushAndMerge
  /\ now - last_flush_time = 0
  /\ last_flush' = FlushRecord(FALSE, now)
  /\ sink' = "no_report"
  /\ Shutdown(now, "raised", Flushed)
  /\ UNCHANGED <<now, num_stats, flushes>>

\* _flush() when sock.send(msg) fails: the report was built (last_flush_time
\* and num_stats are updated), socket.error leaves start() the same way.
MasterFlushSendFails ==
  /\ FlushAndMerge
  /\ \E t \in now .. MaxTime :
       /\ t - last_flush_time > 0
       /\ now' = t
       /\ last_flush' = FlushRecord(TRUE, t)
       /\ Shutdown(t, "raised", Flushed)
  /\ num_stats' = NumStatsAfter(num_stats, Merge(Results))
  /\ sink' = "send_failed"
  /\ UNCHANGED flushes

Next ==
  \/ MasterStartRaises
  \/ MasterStart
  \/ Deliver
  \/ MasterPoll
  \/ MasterInterrupt
  \/ MasterFlush
  \/ MasterFlushConnectFails
  \/ MasterFlushZeroInterval
  \/ MasterFlushSendFails

\* C11: a socket error raised by recvfrom does not end the receive loop of
\* Listener.run(): as long as the worker process lives, the Listener thread
\* is receiving or handling a datagram.
C11_ReceiveLoopSurvivesSocketError == ProcessAlive => rpc # "dead"

\* The datagrams whose sample's counter or timer update is in bundle b.
DatagramsHeld(b) == {sid[1] : sid \in b.held}

\* The key counts of bundle b, added up over the keys.
KeyCountsOf(b) == SumValues(WithPrefix(b.counters, KeyCountPrefix))

\* C21: under every interleaving of flush() with the receive thread, every
\* bundle delivered to the Master reports whole datagrams: it has as many key
\* count increments as sample updates, its tallier.messages.child_<id> is the
\* number of datagrams whose sample updates it holds, and its
\* tallier.bytes.child_<id> counts bytes exactly when it counts messages.
C21_DatagramInOneBundle ==
  \A i \in DOMAIN conn_replies :
    conn_replies[i].kind = "bundle" =>
      LET b == conn_replies[i].bundle
      IN /\ KeyCountsOf(b) = Cardinality(b.held)
         /\ b.counters[MessagesKey] = Cardinality(DatagramsHeld(b))
         /\ (b.counters[BytesKey] = 0) <=> (b.counters[MessagesKey] = 0)

(***************************************************************************)
(* SpecCommands: the Master's _command_all() over the pipes of its workers, *)
(* one send or recv per step, for a Master with a command port. A reply is *)
(* a bundle or a message count; re is the number, on its pipe, of the      *)
(* command it answers (0 for a count sent without a command).              *)
(***************************************************************************)
NoPipe == [cmds |-> <<>>, replies |-> <<>>, nsent |-> 0, nreceived |-> 0]

\* Master.start has started the controllers and is in its loop.
InitCommands ==
  /\ pipes = [w \in Workers |-> NoPipe]
  /\ procs = [w \in Workers |-> "running"]
  /\ cpos = "loop"
  /\ cmd = ""
  /\ ci = 0
  /\ cresults = <<>>
  /\ rounds = 0

NumWorkers == Cardinality(Workers)

\* Master.start: sleep_time <= 0, self._flush() calls _command_all(FLUSH).
CommandFlush ==
  /\ cpos = "loop"
  /\ rounds < MaxRounds
  /\ rounds' = rounds + 1
  /\ cpos' = "send"
  /\ cmd' = FLUSH
  /\ ci' = 0
  /\ cresults' = <<>>
  /\ UNCHANGED <<pipes, procs>>
  /\ UNCHANGED notCommands

\* _command_all: pipe[0].send(cmd) for the next pipe. The Master holds both
\* ends of every pipe, so the send succeeds whatever the state of the child.
CommandSend ==
  /\ cpos = "send"
  /\ pipes' = [pipes EXCEPT ![ci].cmds = Append(@, cmd), ![ci].nsent = @ + 1]
  /\ ci' = IF ci + 1 = NumWorkers THEN 0 ELSE ci + 1
  /\ cpos' = IF ci + 1 = NumWorkers THEN "recv" ELSE "send"
  /\ UNCHANGED <<procs, cmd, cresults, rounds>>
  /\ UNCHANGED notCommands

\* logging.info('Messages: %r (total = %d)', results, sum(results)) raises
\* TypeError when a reply is a bundle (a tuple).
SumRaises(rs) == \E j \in DOMAIN rs : rs[j].kind = "bundle"

\* _command_all: pipe[0].recv() for the next pipe; it blocks while the pipe
\* holds no reply. After the last one _command_all returns: to _flush and the
\* loop, or to _shutdown, which logs sum(results) and goes on to terminate.
CommandRecv ==
  /\ cpos = "recv"
  /\ pipes[ci].replies # <<>>
  /\ LET rs == Append(cresults, [kind |-> Head(pipes[ci].replies).kind,
                                re |-> Head(pipes[ci].replies).re,
                                asked |-> pipes[ci].nsent,
                                cmd |-> cmd])
     IN /\ cresults' = rs
        /\ cpos' = IF ci + 1 < NumWorkers THEN "recv"
                   ELSE IF cmd = FLUSH THEN "loop"
                   ELSE IF SumRaises(rs) THEN "raised"
                   ELSE "terminate"
  /\ pipes' = [pipes EXCEPT ![ci].replies = Tail(@)]
  /\ ci' = IF ci + 1 = NumWorkers THEN 0 ELSE ci + 1
  /\ UNCHANGED <<procs, cmd, rounds>>
  /\ UNCHANGED notCommands

\* Master.start: KeyboardInterrupt in the loop or inside _flush(); the finally
\* clause runs _shutdown(), which calls _command_all(SHUTDOWN).
CommandInterrupt ==
  /\ cpos \in {"loop", "send", "recv"}
  /\ cmd # SHUTDOWN
  /\ cmd' = SHUTDOWN
  /\ cpos' = "send"
  /\ ci' = 0
  /\ cresults' = <<>>
  /\ UNCHANGED <<pipes, procs, rounds>>
  /\ UNCHANGED notCommands

\* _shutdown: controller.terminate() and controller.join() for every
\* controller, then the fields set to None.
CommandTerminate ==
  /\ cpos = "terminate"
  /\ procs' = [w \in Workers |->
                 IF procs[w] \in {"running", "killed"} THEN "terminated" ELSE procs[w]]
  /\ cpos' = "done"
  /\ UNCHANGED <<pipes, cmd, ci, cresults, rounds>>
  /\ UNCHANGED notCommands

\* Controller.start of worker w: cmd = self.conn.recv(), then _flush() sends
\* the bundle, or _shutdown() sends the message count and the loop breaks.
ControllerStep(w) ==
  /\ procs[w] = "running"
  /\ pipes[w].cmds # <<>>
  /\ LET c == Head(pipes[w].cmds)
         n == pipes[w].nreceived + 1
     IN /\ pipes' = [pipes EXCEPT
                       ![w].cmds = Tail(@),
                       ![w].nreceived = n,
                       ![w].replies =
                          Append(@, [kind |-> IF c = FLUSH THEN "bundle" ELSE "count",
                                     re |-> n])]
        /\ procs' = [procs EXCEPT ![w] = IF c = SHUTDOWN THEN "exited" ELSE @]
  /\ UNCHANGED <<cpos, cmd, ci, cresults, rounds>>
  /\ UNCHANGED notCommands

\* Controller.start of worker w: KeyboardInterrupt (the interrupt of the
\* terminal reaches every process of the group); _shutdown() sends the
\* message count, no command asked for it, and the process ends.
ControllerKeyboardInterrupt(w) ==
  /\ procs[w] = "running"
  /\ cpos \notin {"terminate", "done", "raised"}
  /\ pipes' = [pipes EXCEPT ![w].replies = Append(@, [kind |-> "count", re |-> 0])]
  /\ procs' = [procs EXCEPT ![w] = "exited"]
  /\ UNCHANGED <<cpos, cmd, ci, cresults, rounds>>
  /\ UNCHANGED notCommands

\* The process of worker w is stopped from outside (SIGSTOP, or a kill that
\* leaves the pipe open in the Master): it reads no command and sends no
\* reply any more.
ControllerKilled(w) ==
  /\ procs[w] = "running"
  /\ cpos \notin {"terminate", "done", "raised"}
  /\ procs' = [procs EXCEPT ![w] = "killed"]
  /\ UNCHANGED <<pipes, cpos, cmd, ci, cresults, rounds>>
  /\ UNCHANGED notCommands

ControllerSteps == \E w \in Workers : ControllerStep(w)

ControllerInterrupts == \E w \in Workers : ControllerKeyboardInterrupt(w)

ControllerKills == \E w \in Workers : ControllerKilled(w)

NextCommands ==
  \/ CommandFlush
  \/ CommandSend
  \/ CommandRecv
  \/ CommandInterrupt
  \/ CommandTerminate
  \/ ControllerSteps
  \/ ControllerInterrupts
  \/ ControllerKills

\* The steps that the Master and the live controllers take when they can.
CommandProgress == CommandSend \/ CommandRecv \/ CommandTerminate \/ ControllerSteps

\* C12: once the Master has started its shutdown sequence the sequence
\* completes (SHUTDOWN sent to every worker, every worker terminated and
\* joined), also when some worker never replies to SHUTDOWN.
C12_ShutdownCompletes == (cmd = SHUTDOWN) ~> (cpos = "done")

\* C20: every reply the Master reads from a pipe answers the command it last
\* sent on that pipe; the SHUTDOWN broadcast collects message counts only.
C20_RepliesAnswerLastCommand ==
  \A j \in DOMAIN cresults :
    /\ cresults[j].re = cresults[j].asked
    /\ cresults[j].cmd = SHUTDOWN => cresults[j].kind = "count"

(***************************************************************************)
(* SpecParse: Sample.parse(datagram), one line of the datagram per step.   *)
(* Strings are the program's strings; float() is a table over the numerals *)
(* that occur in the lines used.                                           *)
(***************************************************************************)
\* A call that raises ValueError gives <<>>, one that returns v gives <<v>>.
ValueError == <<>>

Char(s, i) == SubSeq(s, i, i)

Chars(s) == {Char(s, i) : i \in 1 .. Len(s)}

\* The characters str.split() and int() treat as white space, within a line.
Whitespace == {" ", "\t"}

IsHexDigit(c) == c \in Chars("0123456789abcdefABCDEF")

HexValue(c) ==
  CHOOSE v \in 0 .. 15 :
    Char("0123456789abcdef", v + 1) = c \/ Char("0123456789ABCDEF", v + 1) = c

\* int(s, 16) for the two characters s = metric[1:3]: int() strips white
\* space and takes a sign; anything else raises ValueError.
IntBase16(s) ==
  LET c1 == Char(s, 1)
      c2 == Char(s, 2)
  IN IF IsHexDigit(c1) /\ IsHexDigit(c2) THEN <<16 * HexValue(c1) + HexValue(c2)>>
     ELSE IF c1 \in ({"+"} \cup Whitespace) /\ IsHexDigit(c2) THEN <<HexValue(c2)>>
     ELSE IF c1 = "-" /\ IsHexDigit(c2) THEN <<0 - HexValue(c2)>>
     ELSE IF IsHexDigit(c1) /\ c2 \in Whitespace THEN <<HexValue(c1)>>
     ELSE ValueError

\* s[:n]
PrefixOf(s, n) ==
  IF n >= 0 THEN SubSeq(s, 1, IF n < Len(s) THEN n ELSE Len(s))
  ELSE SubSeq(s, 1, IF Len(s) + n > 0 THEN Len(s) + n ELSE 0)

\* s[n:], for n >= 0
SuffixFrom(s, n) == SubSeq(s, n + 1, Len(s))

\* The place of the first c in s, 0 if there is none.
Find(s, c) ==
  IF c \in Chars(s) THEN CHOOSE i \in 1 .. Len(s) :
                           Char(s, i) = c /\ \A j \in 1 .. (i - 1) : Char(s, j) # c
  ELSE 0

RECURSIVE Split(_, _)
\* s.split(c)
Split(s, c) ==
  IF Find(s, c) = 0 THEN <<s>>
  ELSE <<PrefixOf(s, Find(s, c) - 1)>> \o Split(SuffixFrom(s, Find(s, c)), c)

RECURSIVE SplitWords(_, _)
\* s.split(): the words of w \o s, w being the word begun.
SplitWords(s, w) ==
  IF s = "" THEN (IF w = "" THEN <<>> ELSE <<w>>)
  ELSE IF Head(s) \in Whitespace
       THEN (IF w = "" THEN <<>> ELSE <<w>>) \o SplitWords(Tail(s), "")
       ELSE SplitWords(Tail(s), w \o Head(s))

RECURSIVE Join(_, _)
\* sep.join(words)
Join(words, sep) ==
  IF words = <<>> THEN ""
  ELSE IF Len(words) = 1 THEN words[1]
  ELSE words[1] \o sep \o Join(Tail(words), sep)

\* _VALID_CHAR_PATTERN: [A-Za-z0-9._-]
ValidChars ==
  Chars("ABCDEFGHIJKLMNOPQRSTUVWXYZabcdefghijklmnopqrstuvwxyz0123456789._-")

RECURSIVE KeepValid(_)
\* .replace('\\', '-') and then ''.join(_VALID_CHAR_PATTERN.findall(key))
KeepValid(s) ==
  IF s = "" THEN ""
  ELSE (IF Head(s) = "\\" THEN "-"
        ELSE IF Head(s) \in ValidChars THEN Head(s) ELSE "")
         \o KeepValid(Tail(s))

\* Sample._normalize_key(key)
NormalizeKey(key) == KeepValid(Join(SplitWords(key, ""), "_"))

\* A float: a number, in halves, or nan.
Number(h) == [nan |-> FALSE, h |-> h]

NaN == [nan |-> TRUE, h |-> 0]

\* float(s) for the numerals of the lines used; any other string raises
\* ValueError.
FloatTable ==
  [s \in {"0", "0.5", "1", "1.0", "1.5", "2", "3", "-1", "nan"} |->
     CASE s = "0" -> Number(0)
       [] s = "0.5" -> Number(1)
       [] s = "1" -> Number(2)
       [] s = "1.0" -> Number(2)
       [] s = "1.5" -> Number(3)
       [] s = "2" -> Number(4)
       [] s = "3" -> Number(6)
       [] s = "-1" -> Number(0 - 2)
       [] s = "nan" -> NaN]

Float(s) == IF s \in DOMAIN FloatTable THEN <<FloatTable[s]>> ELSE ValueError

RateRejected_ZeroAccepted(r) == r.nan \/ ~(0 <= r.h /\ r.h <= RateOne)

\* not (0.0 < sample_rate <= 1.0); every comparison with nan is false.
RateRejected(r) == r.nan \/ ~(0 < r.h /\ r.h <= RateOne)

\* Sample._parse_part(key, part): the Sample, or ValueError. The values of
\* the lines used are whole numbers.
ParsePart(key, part) ==
  LET fields == Split(part, "|")
  IN IF Len(fields) # 2 THEN ValueError
     ELSE IF Float(fields[1]) = ValueError THEN ValueError
     ELSE LET value == Float(fields[1])[1]
              at == Find(fields[2], "@")
              ty == IF at = 0 THEN fields[2] ELSE PrefixOf(fields[2], at - 1)
              sample_rate == IF at = 0 THEN <<Number(RateOne)>>
                             ELSE Float(SuffixFrom(fields[2], at))
          IN IF sample_rate = ValueError THEN ValueError
             ELSE IF at # 0 /\ RateRejected(sample_rate[1]) THEN ValueError
             ELSE <<Sample(key, IF value.nan THEN NaNValue ELSE value.h \div 2,
                           IF ty = "ms" THEN TIMER ELSE COUNTER, sample_rate[1].h)>>

\* The datagrams' lines (datagram.splitlines() is a list of them).
Lines ==
  { "ab:1|c",
    "^01c:3|ms",
    "^ff",
    "^zz:1|c",
    "^-1:1|c",
    "x:1|c@0.5:1|c@2:1|c@0:3|ms",
    "x:1|c@1:1|c@1.5:1|c@-1:1|c@nan:3|c@:1|c",
    "a b:1:1|c|c:^|c:3|ms@1.0" }

RECURSIVE LinesUpTo(_)
LinesUpTo(n) ==
  IF n = 0 THEN {<<>>}
  ELSE LinesUpTo(n - 1) \cup {Append(d, l) : d \in LinesUpTo(n - 1), l \in Lines}

\* Sample.parse is not running.
InitParse ==
  /\ pdatagram = <<>>
  /\ ppos = 0
  /\ previous = ""
  /\ psamples = <<>>
  /\ plog = <<>>

\* Sample.parse(datagram) is called: samples = [], previous = ''.
ParseCall ==
  /\ ppos = Len(pdatagram)
  /\ \E d \in LinesUpTo(MaxLines) : d # <<>> /\ pdatagram' = d
  /\ ppos' = 0
  /\ previous' = ""
  /\ psamples' = <<>>
  /\ plog' = <<>>
  /\ UNCHANGED notParse

RECURSIVE PartOutcomes(_, _, _)
\* for part in parts: the part and what _parse_part gave for it.
PartOutcomes(key, parts, i) ==
  IF i > Len(parts) THEN <<>>
  ELSE <<[part |-> parts[i], got |-> ParsePart(key, parts[i])]>>
         \o PartOutcomes(key, parts, i + 1)

RECURSIVE SamplesOf(_, _)
\* The samples appended: the outcomes that are not ValueError.
SamplesOf(outcomes, i) ==
  IF i > Len(outcomes) THEN <<>>
  ELSE outcomes[i].got \o SamplesOf(outcomes, i + 1)

\* One iteration of `for metric in datagram.splitlines()`.
ParseMetric ==
  /\ ppos < Len(pdatagram)
  /\ ppos' = ppos + 1
  /\ LET metric == pdatagram[ppos + 1]
         compressed == Len(metric) > 2 /\ Char(metric, 1) = "^"
         prefix_len == IF compressed THEN IntBase16(SubSeq(metric, 2, 3)) ELSE <<0>>
     IN IF compressed /\ prefix_len = ValueError
        THEN /\ plog' = Append(plog, [line |-> metric, before |-> previous,
                                      effective |-> <<>>, after |-> previous,
                                      outcomes |-> <<>>])
             /\ UNCHANGED <<previous, psamples>>
        ELSE LET effective == IF compressed
                              THEN PrefixOf(previous, prefix_len[1]) \o SuffixFrom(metric, 3)
                              ELSE metric
                 parts == Split(effective, ":")
                 key == NormalizeKey(parts[1])
                 outcomes == PartOutcomes(key, Tail(parts), 1)
             IN /\ previous' = effective
                /\ psamples' = psamples \o SamplesOf(outcomes, 1)
                /\ plog' = Append(plog, [line |-> metric, before |-> previous,
                                         effective |-> <<effective>>, after |-> effective,
                                         outcomes |-> outcomes])
  /\ UNCHANGED pdatagram
  /\ UNCHANGED notParse

NextParse ==
  \/ ParseCall
  \/ ParseMetric

\* The header of line is '^' and two more characters.
HasHeader(line) == Len(line) > 2 /\ Char(line, 1) = "^"

\* The two characters after '^' are hex digits.
HexHeader(line) == IsHexDigit(Char(line, 2)) /\ IsHexDigit(Char(line, 3))

\* The first n characters of s (all of s if it is shorter).
FirstChars(s, n) == SubSeq(s, 1, IF n < Len(s) THEN n ELSE Len(s))

\* C13: a line '^hh<suffix>' longer than 2 with hh two hex digits is decoded
\* as the first hh characters of the previous effective line of the datagram
\* followed by <suffix>; every effective line becomes the previous line; a
\* line whose header is not hex is dropped and leaves the previous line
\* unchanged; the previous line is empty at the start of every datagram.
C13_CompressedLinesDecoded ==
  \A i \in DOMAIN plog :
    LET e == plog[i]
    IN /\ e.before = IF i = 1 THEN "" ELSE plog[i - 1].after
       /\ IF ~HasHeader(e.line)
          THEN e.effective = <<e.line>> /\ e.after = e.line
          ELSE IF HexHeader(e.line)
          THEN /\ e.effective =
                    <<FirstChars(e.before, 16 * HexValue(Char(e.line, 2))
                                             + HexValue(Char(e.line, 3)))
                        \o SubSeq(e.line, 4, Len(e.line))>>
               /\ e.after = e.effective[1]
          ELSE e.effective = <<>> /\ e.after = e.before

\* The rate of a part '<value>|<type>@<rate>' (Float of what follows the
\* first '@' of the second field), <<>> if it has no '@'.
RateOfPart(part) ==
  LET f == Split(part, "|")[2]
  IN IF Find(f, "@") = 0 THEN <<>> ELSE <<Float(SubSeq(f, Find(f, "@") + 1, Len(f)))>>

\* The part is '<value>|<rest>' with a numeral for value.
WellFormedValue(part) ==
  Len(Split(part, "|")) = 2 /\ Float(Split(part, "|")[1]) # ValueError

RECURSIVE AllSamples(_, _)
\* The samples of the log from entry i on, in order.
AllSamples(log, i) ==
  IF i > Len(log) THEN <<>>
  ELSE SamplesOf(log[i].outcomes, 1) \o AllSamples(log, i + 1)

\* C14: a part yields a sample only if its rate r satisfies 0 < r <= 1; a
\* part with r <= 0 or r > 1 yields none, raises nothing, and the other parts
\* and lines are parsed all the same; r = 1 is accepted; a part without '@'
\* gets rate 1.
C14_RateRule ==
  /\ ppos = Len(plog)
  /\ psamples = AllSamples(plog, 1)
  /\ \A i \in DOMAIN plog :
       /\ plog[i].line = pdatagram[i]
       /\ plog[i].effective # <<>> =>
            Len(plog[i].outcomes) = Len(Split(plog[i].effective[1], ":")) - 1
       /\ \A j \in DOMAIN plog[i].outcomes :
            LET o == plog[i].outcomes[j]
            IN WellFormedValue(o.part) =>
                 LET r == RateOfPart(o.part)
                 IN /\ r = <<>> => o.got # <<>> /\ o.got[1].sample_rate = RateOne
                    /\ (r # <<>> /\ o.got # <<>>) =>
                         /\ r[1] # ValueError
                         /\ ~r[1][1].nan
                         /\ 0 < r[1][1].h
                         /\ r[1][1].h <= RateOne
                         /\ o.got[1].sample_rate = r[1][1].h
                    /\ (r # <<>> /\ r[1] # ValueError) =>
                         IF ~r[1][1].nan /\ 0 < r[1][1].h /\ r[1][1].h <= RateOne
                         THEN o.got # <<>>
                         ELSE o.got = <<>>

\* A datagram parsed to its end with parts of rate 0.5, 2, 0 and no rate in
\* its first line and parts of rate 1, 1.5 and -1 in its second.
C14_Witness ==
  /\ Len(pdatagram) = 2
  /\ ppos = 2
  /\ pdatagram[1] = "x:1|c@0.5:1|c@2:1|c@0:3|ms"
  /\ pdatagram[2] = "x:1|c@1:1|c@1.5:1|c@-1:1|c@nan:3|c@:1|c"
  /\ Len(plog[1].outcomes) = 4
  /\ plog[1].outcomes[2].got = <<>>
  /\ plog[1].outcomes[3].got = <<>>
  /\ plog[1].outcomes[4].got # <<>>
  /\ plog[2].outcomes[1].got # <<>>
  /\ plog[2].outcomes[2].got = <<>>
  /\ Len(psamples) = 4

(***************************************************************************)
(* Properties of the Master with its workers.                              *)
(***************************************************************************)
\* The keys of the samples the clients send.
SampleKeys ==
  UNION {{Datagrams[d].samples[i].key : i \in DOMAIN Datagrams[d].samples} :
           d \in DOMAIN Datagrams}

\* How many samples of kind ty (any kind when ty = "") with key k are in the
\* datagrams bag holds.
CountSamples(bag, k, ty) ==
  SumValues([d \in DOMAIN Datagrams |->
     bag[d] * Cardinality({i \in DOMAIN Datagrams[d].samples :
                             /\ Datagrams[d].samples[i].key = k
                             /\ ty \in {"", Datagrams[d].samples[i].value_type}})])

\* The datagrams of a flush whatever worker received them.
AllSent(s) == [d \in DOMAIN Datagrams |-> SumValues([w \in Workers |-> s[w][d]])]

\* C3: the bundle a listener flushed has, for every key k, under
\* "tallier._key_counts." + k exactly the number of samples with key k that it
\* accumulated since its previous flush, whatever keys the clients sent.
C3_KeyCountsExact ==
  last_flush.time # NoTime =>
    \A w \in Workers : \A k \in SampleKeys :
      Get(last_flush.results[w + 1].counters, KeyCountPrefix \o k)
        = CountSamples(last_flush.sent[w], k, "")

\* value / sample_rate summed over the counter samples with key k in bag.
CounterSum(bag, k) ==
  SumValues([d \in DOMAIN Datagrams |->
     bag[d] * SumValues([i \in {j \in DOMAIN Datagrams[d].samples :
                                  /\ Datagrams[d].samples[j].key = k
                                  /\ Datagrams[d].samples[j].value_type = COUNTER} |->
                           Scaled(Datagrams[d].samples[i])])])

\* C4: after a flush the merged agg_counters[key] is the sum of
\* value / sample_rate over all the counter samples with that key, whatever
\* worker received them.
C4_CountersSumSamples ==
  last_flush.time # NoTime =>
    \A k \in SampleKeys :
      CountSamples(AllSent(last_flush.sent), k, COUNTER) > 0 =>
        Get(last_flush.merged.agg_counters, k) = CounterSum(AllSent(last_flush.sent), k)

RECURSIVE Repeat(_, _)
\* The list vs, n times over.
Repeat(vs, n) == IF n = 0 THEN <<>> ELSE vs \o Repeat(vs, n - 1)

RECURSIVE TimerValuesOf(_, _, _)
\* The timer values with key k among the samples ss, from sample i on.
TimerValuesOf(ss, k, i) ==
  IF i > Len(ss) THEN <<>>
  ELSE (IF ss[i].key = k /\ ss[i].value_type = TIMER THEN <<ss[i].value>> ELSE <<>>)
         \o TimerValuesOf(ss, k, i + 1)

RECURSIVE TimerValuesFrom(_, _, _)
\* The timer values with key k in bag, datagram by datagram from d on.
TimerValuesFrom(bag, k, d) ==
  IF d > Len(Datagrams) THEN <<>>
  ELSE Repeat(TimerValuesOf(Datagrams[d].samples, k, 1), bag[d])
         \o TimerValuesFrom(bag, k, d + 1)

\* The multiset M of the claim, as a list that does not depend on the partition.
TimerValues(f, k) == TimerValuesFrom(AllSent(f.sent), k, 1)

\* The merge of flush f had each worker received the other's datagrams.
ExchangedMerge(f) == Merge(<<f.results[2], f.results[1]>>)

\* C5: for every timer key the merged list, sorted, is the same list however
\* the multiset M of the key's values was spread over the workers (it is what
\* it would be had the two workers received each other's values), and so are
\* the six lines derived from it; when M holds numbers only it is sort(M).
C5_TimersMergeToSortedMultiset ==
  last_flush.time # NoTime =>
    /\ DOMAIN last_flush.merged.agg_timers
         = {k \in SampleKeys : CountSamples(AllSent(last_flush.sent), k, TIMER) > 0}
    /\ \A k \in DOMAIN last_flush.merged.agg_timers :
         /\ Sorted(last_flush.merged.agg_timers[k])
              = Sorted(ExchangedMerge(last_flush).agg_timers[k])
         /\ (\A i \in DOMAIN TimerValues(last_flush, k) :
               TimerValues(last_flush, k)[i] # NaNValue)
              => Sorted(last_flush.merged.agg_timers[k])
                   = Sorted(TimerValues(last_flush, k))
         /\ last_flush.built =>
              TimerLines(k, last_flush.merged.agg_timers[k], last_flush.time, last_flush.dt)
                = TimerLines(k, ExchangedMerge(last_flush).agg_timers[k],
                             last_flush.time, last_flush.dt)

RECURSIVE HandleAll(_, _, _)
\* A Listener that receives the datagrams of bag, from datagram d on.
HandleAll(l, bag, d) ==
  IF d > Len(Datagrams) THEN l
  ELSE IF bag[d] = 0 THEN HandleAll(l, bag, d + 1)
  ELSE HandleAll(HandleDatagram(l, Datagrams[d]), [bag EXCEPT ![d] = @ - 1], d)

\* The report of flush f had worker 0 received all of its datagrams.
ReferenceLines(f) ==
  LET ref == [w \in Workers |->
                IF w = 0 THEN HandleAll(StartedListener, AllSent(f.sent), 1)
                ELSE StartedListener]
      res == [i \in 1 .. Cardinality(Workers) |-> ListenerFlush(ref[i - 1], i - 1).reply]
  IN BuildReport(Merge(res), f.time, f.dt, f.num_stats_before)

IsPerChildLine(l) ==
  \E p \in {"stats.", "stats_counts."} : \E q \in {MessagesChildPrefix, BytesChildPrefix} :
    StartsWith(l.name, p \o q)

IsTotalLine(l) ==
  \E p \in {"stats.", "stats_counts."} :
    l.name \in {p \o "tallier.messages.total", p \o "tallier.bytes.total"}

\* Some sample of flush f has a key in the namespace of the per-worker counters.
PerChildKeySent(f) ==
  \E k \in SampleKeys :
    /\ CountSamples(AllSent(f.sent), k, "") > 0
    /\ StartsWith(k, MessagesChildPrefix) \/ StartsWith(k, BytesChildPrefix)

\* C6 as stated: every split of the datagrams between the two workers gives
\* the same set of report lines (same interval, same timestamp).
C6_SameLinesForEverySplit ==
  last_flush.built => last_flush.lines = ReferenceLines(last_flush)

\* Line l is the lower, upper or upper_90 line of a timer key for which flush
\* f merged a nan.
IsOrderLineOfNaN(f, l) ==
  \E k \in DOMAIN f.merged.agg_timers :
    /\ \E i \in DOMAIN f.merged.agg_timers[k] : f.merged.agg_timers[k][i] = NaNValue
    /\ l.name \in {"stats.timers." \o k \o x : x \in {".lower", ".upper", ".upper_90"}}

\* C6: every split gives the same report lines apart from those of the
\* per-worker counters tallier.messages.child_<id> and tallier.bytes.child_<id>,
\* of the two totals, and the lower, upper and upper_90 lines of a timer key
\* with a nan among its values; the lines of the totals are the same too when
\* no sample's key begins with tallier.messages.child_ or tallier.bytes.child_.
C6_SameLinesButPerChild ==
  last_flush.built =>
    LET Kept(l) == ~IsPerChildLine(l) /\ ~IsTotalLine(l)
                     /\ ~IsOrderLineOfNaN(last_flush, l)
    IN /\ {l \in last_flush.lines : Kept(l)}
            = {l \in ReferenceLines(last_flush) : Kept(l)}
       /\ ~PerChildKeySent(last_flush) =>
            {l \in last_flush.lines : IsTotalLine(l)}
              = {l \in ReferenceLines(last_flush) : IsTotalLine(l)}

\* A report of samples that were split between the two workers.
C6_Witness ==
  /\ last_flush.built
  /\ ~PerChildKeySent(last_flush)
  /\ \A w \in Workers : SumValues(last_flush.sent[w]) > 0

\* Some flush was started in this step.
FlushStarted == last_flush' # last_flush \/ flushes' # flushes

\* C9: a flush starts only when the time has reached next_flush_time, each
\* flush adds exactly flush_interval to next_flush_time, and so after k
\* flushes next_flush_time is the start time plus (k + 1) * flush_interval.
C9_FlushSchedule ==
  /\ [](mpc = "running" => next_flush_time = start_time + (flushes + 1) * FlushInterval)
  /\ [][FlushStarted => now >= next_flush_time]_vars
  /\ [][flushes' # flushes =>
          /\ flushes' = flushes + 1
          /\ next_flush_time' = next_flush_time + FlushInterval]_vars

\* Two flushes done, the second one late.
C9_Witness ==
  /\ mpc = "running"
  /\ flushes = 2
  /\ last_flush.time > next_flush_time - FlushInterval

\* C10: after a failure to connect or to send to the sink the Master is still
\* in its loop with all the workers running.
C10_SinkFailureContinues ==
  sink \in {"connect_failed", "send_failed"} =>
    /\ mpc = "running"
    /\ \A w \in Workers : controllers[w] = "running"

\* The stat keys that the bundles of flush f count.
CountedKeys(f) ==
  UNION {{StripPrefix(x, KeyCountPrefix) :
            x \in {y \in DOMAIN f.results[i].counters : StartsWith(y, KeyCountPrefix)}} :
           i \in DOMAIN f.results}

\* C15: at each flush the increment handed to the FrequencyCounter for a stat
\* key k is the sum over all the workers' bundles of
\* counters["tallier._key_counts." + k].
C15_KeyCountsSummedOverWorkers ==
  last_flush.time # NoTime =>
    \A k \in CountedKeys(last_flush) :
      Get(last_flush.merged.stat_key_counts, k)
        = SumValues([i \in DOMAIN last_flush.results |->
                       Get(last_flush.results[i].counters, KeyCountPrefix \o k)])

\* C16: in every flush the merged counters hold each worker's
\* tallier.messages.child_<id> and tallier.bytes.child_<id> as that worker
\* reported them, and tallier.messages.total and tallier.bytes.total are the
\* sums of those per-child values over the workers.
C16_PerChildKeptAndTotalled ==
  last_flush.time # NoTime =>
    LET own(w, p) == Get(last_flush.results[w + 1].counters, p \o IdStr(w))
        merged == last_flush.merged.agg_counters
    IN /\ \A w \in Workers :
            /\ Get(merged, MessagesChildPrefix \o IdStr(w)) = own(w, MessagesChildPrefix)
            /\ Get(merged, BytesChildPrefix \o IdStr(w)) = own(w, BytesChildPrefix)
       /\ Get(merged, "tallier.messages.total")
            = SumValues([w \in Workers |-> own(w, MessagesChildPrefix)])
       /\ Get(merged, "tallier.bytes.total")
            = SumValues([w \in Workers |-> own(w, BytesChildPrefix)])

\* C17 as stated: in every state of the running Master between flushes
\* next_flush_time = last_flush_time + flush_interval.
C17_NextIsLastPlusInterval ==
  mpc = "running" => next_flush_time = last_flush_time + FlushInterval

\* C17: in every state of the running Master next_flush_time is at most
\* last_flush_time + flush_interval: equal until the first flush, and after a
\* flush last_flush_time is the time its report was built, at or after the
\* deadline of that flush, which is next_flush_time - flush_interval.
C17_NextWithinIntervalOfLast ==
  mpc = "running" =>
    /\ next_flush_time <= last_flush_time + FlushInterval
    /\ flushes = 0 => next_flush_time = last_flush_time + FlushInterval
    /\ flushes > 0 =>
         /\ last_flush_time = last_flush.time
         /\ last_flush_time >= next_flush_time - FlushInterval

\* The Master is running after a flush whose report was built late.
C17_Witness ==
  /\ mpc = "running"
  /\ flushes > 0
  /\ next_flush_time < last_flush_time + FlushInterval

\* The Master has started: what start() did before it reached the loop.
StartedWell ==
  /\ mpc' = "running"
  /\ sock' = "bound"
  /\ \A w \in Workers : controllers'[w] = "running"
  /\ last_flush_time' = now'
  /\ next_flush_time' = now' + FlushInterval
  /\ num_stats' = 0

\* C18: start() on a freshly constructed Master binds the socket, starts
\* num_workers controllers, sets last_flush_time = now, next_flush_time =
\* now + flush_interval and num_stats = 0, and reaches the scheduler loop
\* without error.
C18_StartReachesLoop == [][(mpc = "new" /\ mpc' # "new") => StartedWell]_vars

\* The value of the line called name.
LineValue(lines, name) == (CHOOSE l \in lines : l.name = name).value

\* C19: for every timer key of a report the list L is not empty and the
\* index int(len(L) * 90 / 100.0) is within 0 .. len(L) - 1 (0 for one
\* value), so lower <= upper_90 <= upper: the report never prints an
\* upper_90 below its lower nor an upper below its upper_90.
C19_PercentileInRange ==
  /\ \A n \in 1 .. MaxListLen :
       /\ PercentileIndex(n) - 1 \in 0 .. (n - 1)
       /\ n = 1 => PercentileIndex(n) - 1 = 0
  /\ last_flush.built =>
       \A k \in DOMAIN last_flush.merged.agg_timers :
         LET L == last_flush.merged.agg_timers[k]
             name(x) == "stats.timers." \o k \o x
         IN /\ Len(L) >= 1
            /\ PercentileIndex(Len(L)) \in 1 .. Len(L)
            /\ ~Lt(LineValue(last_flush.lines, name(".upper_90")),
                   LineValue(last_flush.lines, name(".lower")))
            /\ ~Lt(LineValue(last_flush.lines, name(".upper")),
                   LineValue(last_flush.lines, name(".upper_90")))

\* C22: at every report construction the interval now - last_flush_time is
\* strictly positive (value / interval and len(L) / interval are defined),
\* also when the Master is more than one flush_interval behind and flushes
\* again without sleeping.
C22_IntervalPositive ==
  (last_flush.time # NoTime /\ sink # "connect_failed") => last_flush.dt > 0

(***************************************************************************)
(* The specifications.                                                     *)
(***************************************************************************)
\* The state after construction; the Master's configuration and the
\* interpreter's mode are the environment's choice.
Init ==
  /\ InitWorker
  /\ InitFC
  /\ InitCommands
  /\ InitParse
  /\ \E cp \in {0, 1} : \E opt \in BOOLEAN : InitMaster(cp, opt)

InitOneProcess ==
  /\ InitWorker
  /\ InitFC
  /\ InitMaster(0, TRUE)
  /\ InitCommands
  /\ InitParse

Spec == Init /\ [][Next]_vars

SpecWorker == InitOneProcess /\ [][NextWorker]_vars

SpecFC == InitOneProcess /\ [][NextFC]_vars

SpecCommands == InitOneProcess /\ [][NextCommands]_vars

SpecParse == InitOneProcess /\ [][NextParse]_vars

\* The Master and the live controllers do not stop while they have a step.
SpecCommandsLive == SpecCommands /\ WF_vars(CommandProgress)

====
